---- MODULE Spec2Model ----
(***************************************************************************)
(* A model of the IPFIX reader/writer (src/src/parser.rs) and of its       *)
(* template registry (src/src/template_store.rs).                          *)
(*                                                                         *)
(* Bytes are naturals 0..255 and a byte stream is a sequence of bytes.     *)
(* TLC integers are 32 bits wide, so every integer wider than 16 bits is   *)
(* kept as a big-endian sequence of 16-bit limbs: a u32 is <<hi, lo>>, a   *)
(* u64 is <<l3, l2, l1, l0>>, a u128 has 8 limbs.                           *)
(***************************************************************************)
EXTENDS Integers, Sequences, FiniteSets, TLC

VARIABLES
    \* ---- the value codec (DataRecordValue) ----
    val,        \* the DataRecordValue handed to the writer
    flen,       \* the declared template field length handed to both sides
    vpc,        \* "start" | "encoded" | "decoded" | "cut"
    wres,       \* result of DataRecordValue::write_options
    rres        \* result of DataRecordValue::read_options

valueVars == <<val, flen, vpc, wres, rres>>

VARIABLES
    \* ---- the registry and the Message codec, one caller at a time ----
    store,      \* the template registry: template id -> None | Some(Template)
    hist,       \* every insert_template call so far, as <<id, Template>> (SpecStore)
    known,      \* the template ids some insert_template call has been made for
    phase,      \* "idle" | "sets" | "records": where Message::read stands
    din,        \* the input of the decode in progress or last finished
    dpos,       \* the reader's stream position
    dset,       \* the Set being read: kind, set_id, end of its budget, records
    dsets,      \* the Sets read so far
    st0,        \* the registry as it was when the decode began
    res         \* the result of the last finished operation

codecVars == <<store, hist, known, phase, din, dpos, dset, dsets, st0, res>>

VARIABLES
    \* ---- the shared registry: Arc<RwLock<HashMap<u16, Template>>> ----
    lock,       \* the RwLock: the threads holding it shared, the one holding it exclusively
    slot,       \* the map's storage: template id -> the cells of its entry
    pc,         \* thread -> where it stands in get_template / insert_template
    call,       \* thread -> the call it is making
    local,      \* thread -> the cells it has cloned so far
    ret,        \* thread -> what its last get_template returned
    installed   \* template id -> every entry a finished or running insert wrote

lockVars == <<lock, slot, pc, call, local, ret, installed>>

vars == <<valueVars, codecVars, lockVars>>

-----------------------------------------------------------------------------
(* The outcome of an operation: which operation, its error ("none" for Ok), *)
(* the error's argument, what it returned or wrote, and what it was given.  *)

Res(op, err, arg, out, in) ==
    [op |-> op, err |-> err, arg |-> arg, out |-> out, in |-> in]
NoRes == Res("none", "none", 0, 0, 0)

-----------------------------------------------------------------------------
(* Fixed-width integers                                                    *)

U16Max == 65535

\* the largest value of a 40-bit unsigned integer, 0xFF_FFFF_FFFF, as a u64
U40Max == <<0, 255, 65535, 65535>>

RECURSIVE Pow2(_)
Pow2(n) == IF n = 0 THEN 1 ELSE 2 * Pow2(n - 1)

\* x > y on two limb sequences of equal width
RECURSIVE WideGt(_, _)
WideGt(x, y) ==
    IF x = << >> THEN FALSE
    ELSE IF Head(x) # Head(y) THEN Head(x) > Head(y)
    ELSE WideGt(Tail(x), Tail(y))

\* ((x >> s) & 0xFF) as u8, for s a multiple of 8
ShrByte(x, s) ==
    LET limb == x[Len(x) - (s \div 16)]
    IN  (limb \div Pow2(s % 16)) % 256

\* big-endian bytes of a limb sequence (uN::to_be_bytes)
RECURSIVE ToBeBytes(_)
ToBeBytes(x) ==
    IF x = << >> THEN << >>
    ELSE <<Head(x) \div 256, Head(x) % 256>> \o ToBeBytes(Tail(x))

\* limb sequence of an even number of big-endian bytes (uN::from_be_bytes)
RECURSIVE FromBeBytes(_)
FromBeBytes(b) ==
    IF b = << >> THEN << >>
    ELSE <<b[1] * 256 + b[2]>> \o FromBeBytes(Tail(Tail(b)))

U16Bytes(n) == <<n \div 256, n % 256>>
U16Of(b) == b[1] * 256 + b[2]

\* two's complement of a signed integer of w bits
SignedBits(n, w) == (n + Pow2(w)) % Pow2(w)
SignedOf(u, w) == IF u >= Pow2(w - 1) THEN u - Pow2(w) ELSE u

-----------------------------------------------------------------------------
(* Byte streams                                                            *)

Slice(buf, pos, n) == [i \in 1..n |-> buf[pos + i]]

\* read_exact / read_type of n bytes at offset pos (0-based) of buf
Take(buf, pos, n) ==
    IF pos + n > Len(buf)
    THEN [err |-> "Eof", bytes |-> << >>, pos |-> pos]
    ELSE [err |-> "none", bytes |-> Slice(buf, pos, n), pos |-> pos + n]

Fill(n, b) == [i \in 1..n |-> b]

\* String::from_utf8 accepts exactly the well-formed UTF-8 byte sequences
IsCont(b) == b >= 128 /\ b <= 191

\* the length of the sequence a lead byte opens (0: not a lead byte)
Utf8Width(c) ==
    IF c < 128 THEN 1
    ELSE IF c >= 194 /\ c <= 223 THEN 2
    ELSE IF c >= 224 /\ c <= 239 THEN 3
    ELSE IF c >= 240 /\ c <= 244 THEN 4
    ELSE 0

Utf8LeadOk(b, i) ==
    LET c == b[i]
        w == Utf8Width(c)
    IN  /\ w > 0
        /\ i + w - 1 <= Len(b)
        /\ \A k \in 1..(w - 1) : IsCont(b[i + k])
        /\ (c = 224 => b[i + 1] >= 160)
        /\ (c = 237 => b[i + 1] <= 159)
        /\ (c = 240 => b[i + 1] >= 144)
        /\ (c = 244 => b[i + 1] <= 143)

Utf8ContOk(b, i) ==
    \E k \in 1..3 :
        /\ i - k >= 1
        /\ Utf8Width(b[i - k]) > k
        /\ \A j \in 1..(k - 1) : IsCont(b[i - j])

Utf8Valid(b) ==
    \A i \in 1..Len(b) :
        IF IsCont(b[i]) THEN Utf8ContOk(b, i) ELSE Utf8LeadOk(b, i)

-----------------------------------------------------------------------------
(* DataRecordValue and DataRecordType                                      *)

Val(tag, v) == [tag |-> tag, v |-> v]

\* the DataRecordType whose decode table produces the variant of v
TypeOf(v) ==
    CASE v.tag \in {"U8", "U16", "U32", "U40", "U64"} -> "UnsignedInt"
      [] v.tag \in {"I8", "I16", "I32", "I64"} -> "SignedInt"
      [] v.tag \in {"F32", "F64"} -> "Float"
      [] OTHER -> v.tag

\* f32 / f64 carried as their IEEE-754 bit pattern
IsNaN32(x) == (x[1] \div 128) % 256 = 255 /\ (x[1] % 128 # 0 \/ x[2] # 0)
IsZero32(x) == x[1] % 32768 = 0 /\ x[2] = 0
IsNaN64(x) ==
    /\ (x[1] \div 16) % 2048 = 2047
    /\ (x[1] % 16 # 0 \/ x[2] # 0 \/ x[3] # 0 \/ x[4] # 0)
IsZero64(x) == x[1] % 32768 = 0 /\ x[2] = 0 /\ x[3] = 0 /\ x[4] = 0

\* #[derive(PartialEq)] on DataRecordValue: structural, IEEE on the floats
ValueEq(a, b) ==
    /\ a.tag = b.tag
    /\ CASE a.tag = "F32" ->
              /\ ~IsNaN32(a.v) /\ ~IsNaN32(b.v)
              /\ (a.v = b.v \/ (IsZero32(a.v) /\ IsZero32(b.v)))
         [] a.tag = "F64" ->
              /\ ~IsNaN64(a.v) /\ ~IsNaN64(b.v)
              /\ (a.v = b.v \/ (IsZero64(a.v) /\ IsZero64(b.v)))
         [] OTHER -> a.v = b.v

WOk(bytes) == [ok |-> TRUE, err |-> "none", bytes |-> bytes]
WErr(e) == [ok |-> FALSE, err |-> e, bytes |-> << >>]

\* U40Bytes with the bound test off by one (>= in place of >)
U40BytesOffByOne(x) ==
    IF WideGt(x, U40Max) \/ x = U40Max
    THEN WErr("ValueTooLargeForU40")
    ELSE WOk(<<ShrByte(x, 32), ShrByte(x, 24), ShrByte(x, 16),
               ShrByte(x, 8), ShrByte(x, 0)>>)

\* the try_map closure of DataRecordValue::U40
U40Bytes(x) ==
    IF WideGt(x, U40Max)
    THEN WErr("ValueTooLargeForU40")
    ELSE WOk(<<ShrByte(x, 32), ShrByte(x, 24), ShrByte(x, 16),
               ShrByte(x, 8), ShrByte(x, 0)>>)

\* WriteVariableLength with the short form kept up to 255 (<= in place of <)
WriteVariableLengthShort255(payload, length) ==
    LET n == Len(payload)
        prefix1 == IF length = U16Max
                   THEN <<IF n <= 255 THEN n ELSE 255>>
                   ELSE << >>
        needs2 == length = U16Max /\ n > 255
    IN  IF needs2 /\ n > U16Max
        THEN WErr("TryFromInt")
        ELSE WOk(prefix1 \o (IF needs2 THEN U16Bytes(n) ELSE << >>) \o payload)

\* the two calculated prefix fields of Bytes and String, then the payload
WriteVariableLength(payload, length) ==
    LET n == Len(payload)
        prefix1 == IF length = U16Max
                   THEN <<IF n < 255 THEN n ELSE 255>>
                   ELSE << >>
        needs2 == length = U16Max /\ n >= 255
    IN  IF needs2 /\ n > U16Max
        THEN WErr("TryFromInt")
        ELSE WOk(prefix1 \o (IF needs2 THEN U16Bytes(n) ELSE << >>) \o payload)

\* #[binwrite] #[bw(big)] #[bw(import(length: u16))] enum DataRecordValue
WriteValue(v, length) ==
    CASE v.tag = "U8" -> WOk(<<v.v>>)
      [] v.tag = "U16" -> WOk(U16Bytes(v.v))
      [] v.tag \in {"U32", "U64", "I32", "I64", "F32", "F64",
                    "DateTimeSeconds", "DateTimeMilliseconds",
                    "DateTimeMicroseconds", "DateTimeNanoseconds"} ->
            WOk(ToBeBytes(v.v))
      [] v.tag = "U40" -> U40Bytes(v.v)
      [] v.tag = "I8" -> WOk(<<SignedBits(v.v, 8)>>)
      [] v.tag = "I16" -> WOk(U16Bytes(SignedBits(v.v, 16)))
      [] v.tag = "Bool" -> WOk(<<IF v.v THEN 1 ELSE 2>>)
      [] v.tag = "MacAddress" -> WOk(v.v)
      [] v.tag \in {"Bytes", "String"} -> WriteVariableLength(v.v, length)
      [] v.tag \in {"Ipv4Addr", "Ipv6Addr"} -> WOk(ToBeBytes(FromBeBytes(v.v)))

ROk(v, pos) == [err |-> "none", value |-> v, pos |-> pos]
RErr(e, pos) == [err |-> e, value |-> Val("none", 0), pos |-> pos]

\* fn read_variable_length
read_variable_length(buf, pos, length) ==
    IF length = U16Max
    THEN LET l1 == Take(buf, pos, 1)
         IN  IF l1.err # "none" THEN l1
             ELSE IF l1.bytes[1] = 255
                  THEN LET l2 == Take(buf, l1.pos, 2)
                       IN  IF l2.err # "none" THEN l2
                           ELSE Take(buf, l2.pos, U16Of(l2.bytes))
                  ELSE Take(buf, l1.pos, l1.bytes[1])
    ELSE Take(buf, pos, length)

\* fn read_u40
read_u40(buf, pos) ==
    LET r == Take(buf, pos, 5)
    IN  IF r.err # "none" THEN RErr(r.err, r.pos)
        ELSE ROk(<<0, r.bytes[1], r.bytes[2] * 256 + r.bytes[3],
                   r.bytes[4] * 256 + r.bytes[5]>>, r.pos)

\* one fixed-width arm of the decode table
ReadFixed(buf, pos, n, tag, conv(_)) ==
    LET r == Take(buf, pos, n)
    IN  IF r.err # "none" THEN RErr(r.err, r.pos)
        ELSE ROk(Val(tag, conv(r.bytes)), r.pos)

ByteOf(b) == b[1]
I8Of(b) == SignedOf(b[1], 8)
I16Of(b) == SignedOf(U16Of(b), 16)
BoolOf(b) == b[1] = 1
Same(b) == b
AddrOf(b) == ToBeBytes(FromBeBytes(b))

\* impl BinRead for DataRecordValue
ReadValue(buf, pos, ty, length) ==
    CASE ty = "UnsignedInt" /\ length = 1 -> ReadFixed(buf, pos, 1, "U8", ByteOf)
      [] ty = "UnsignedInt" /\ length = 2 -> ReadFixed(buf, pos, 2, "U16", U16Of)
      [] ty = "UnsignedInt" /\ length = 4 -> ReadFixed(buf, pos, 4, "U32", FromBeBytes)
      [] ty = "UnsignedInt" /\ length = 5 ->
            LET r == read_u40(buf, pos)
            IN  IF r.err # "none" THEN r ELSE ROk(Val("U40", r.value), r.pos)
      [] ty = "UnsignedInt" /\ length = 8 -> ReadFixed(buf, pos, 8, "U64", FromBeBytes)
      [] ty = "SignedInt" /\ length = 1 -> ReadFixed(buf, pos, 1, "I8", I8Of)
      [] ty = "SignedInt" /\ length = 2 -> ReadFixed(buf, pos, 2, "I16", I16Of)
      [] ty = "SignedInt" /\ length = 4 -> ReadFixed(buf, pos, 4, "I32", FromBeBytes)
      [] ty = "SignedInt" /\ length = 8 -> ReadFixed(buf, pos, 8, "I64", FromBeBytes)
      [] ty = "Float" /\ length = 4 -> ReadFixed(buf, pos, 4, "F32", FromBeBytes)
      [] ty = "Float" /\ length = 8 -> ReadFixed(buf, pos, 8, "F64", FromBeBytes)
      [] ty = "Bool" /\ length = 1 -> ReadFixed(buf, pos, 1, "Bool", BoolOf)
      [] ty = "MacAddress" /\ length = 6 -> ReadFixed(buf, pos, 6, "MacAddress", Same)
      [] ty = "Bytes" ->
            LET r == read_variable_length(buf, pos, length)
            IN  IF r.err # "none" THEN RErr(r.err, r.pos)
                ELSE ROk(Val("Bytes", r.bytes), r.pos)
      [] ty = "String" ->
            LET r == read_variable_length(buf, pos, length)
            IN  IF r.err # "none" THEN RErr(r.err, r.pos)
                ELSE IF ~Utf8Valid(r.bytes) THEN RErr("FromUtf8Error", r.pos)
                ELSE ROk(Val("String", r.bytes), r.pos)
      [] ty = "DateTimeSeconds" /\ length = 4 ->
            ReadFixed(buf, pos, 4, "DateTimeSeconds", FromBeBytes)
      [] ty = "DateTimeMilliseconds" /\ length = 8 ->
            ReadFixed(buf, pos, 8, "DateTimeMilliseconds", FromBeBytes)
      [] ty = "DateTimeMicroseconds" /\ length = 8 ->
            ReadFixed(buf, pos, 8, "DateTimeMicroseconds", FromBeBytes)
      [] ty = "DateTimeNanoseconds" /\ length = 8 ->
            ReadFixed(buf, pos, 8, "DateTimeNanoseconds", FromBeBytes)
      [] ty = "Ipv4Addr" /\ length = 4 -> ReadFixed(buf, pos, 4, "Ipv4Addr", AddrOf)
      [] ty = "Ipv6Addr" /\ length = 16 -> ReadFixed(buf, pos, 16, "Ipv6Addr", AddrOf)
      [] OTHER -> RErr("InvalidFieldSpecLength", pos)

-----------------------------------------------------------------------------
(* Inputs of the value codec                                               *)

U64Choices ==
    { <<0, 0, 0, 0>>, <<0, 0, 0, 1>>,
      U40Max,                            \* 0xFF_FFFF_FFFF
      <<0, 256, 0, 0>>,                  \* 0x100_0000_0000
      <<0, 511, 65535, 65535>>,          \* 0x1FF_FFFF_FFFF
      <<0, 17, 8755, 17493>>,            \* 0x11_2233_4455
      <<0, 240, 0, 0>>,                  \* 0xF0_0000_0000
      <<1, 0, 0, 0>>,                    \* bit 48 only
      <<65535, 65535, 65535, 65535>> }   \* u64::MAX

U32Choices == { <<0, 0>>, <<1, 2>>, <<32768, 0>>, <<65535, 65535>> }

PayloadLens == {0, 2, 3, 254, 255, 256, 300}
LongPayloadLens == {65535}

Values ==
    {Val("U8", n) : n \in {0, 1, 255}}
    \cup {Val("U16", n) : n \in {0, 258, 65535}}
    \cup {Val("U32", x) : x \in U32Choices}
    \cup {Val("U40", x) : x \in U64Choices}
    \cup {Val("U64", x) : x \in {<<0, 0, 0, 0>>, <<258, 772, 1286, 1800>>}}
    \cup {Val("I8", n) : n \in {-128, -1, 0, 127}}
    \cup {Val("I16", n) : n \in {-32768, -1, 258}}
    \cup {Val("I32", x) : x \in U32Choices}
    \cup {Val("I64", x) : x \in {<<65535, 65535, 65535, 65535>>, <<0, 0, 0, 7>>}}
    \cup {Val("F32", x) : x \in {<<16256, 0>>, <<0, 0>>, <<32768, 0>>, <<32704, 0>>}}
    \cup {Val("F64", x) : x \in {<<16368, 0, 0, 0>>, <<32760, 0, 0, 0>>}}
    \cup {Val("Bool", b) : b \in BOOLEAN}
    \cup {Val("MacAddress", m) : m \in {<<1, 2, 3, 4, 5, 6>>, Fill(6, 255)}}
    \cup {Val("Bytes", Fill(n, 171)) : n \in PayloadLens}
    \cup {Val("Bytes", Fill(n, 0)) : n \in LongPayloadLens}
    \cup {Val("Bytes", <<1, 255, 0>>)}
    \cup {Val("String", Fill(n, 97)) : n \in PayloadLens}
    \cup {Val("String", s) : s \in {<<104, 105>>, <<195, 169>>}}
    \cup {Val("DateTimeSeconds", x) : x \in {<<25000, 1>>}}
    \cup {Val("DateTimeMilliseconds", x) : x \in {<<0, 397, 1, 2>>}}
    \cup {Val("DateTimeMicroseconds", x) : x \in {<<6, 5, 4, 3>>}}
    \cup {Val("DateTimeNanoseconds", x) : x \in {<<6000, 5, 4, 3>>}}
    \cup {Val("Ipv4Addr", a) : a \in {<<192, 168, 0, 1>>}}
    \cup {Val("Ipv6Addr", a) : a \in {<<32, 1, 13, 184, 0, 0, 0, 0, 0, 0, 0, 0, 0, 0, 0, 1>>}}

FieldLengths == {0, 1, 2, 3, 4, 5, 6, 8, 16, 300, U16Max}

-----------------------------------------------------------------------------
(* The value codec as a state machine: one value is written under a        *)
(* declared length, then the bytes written are read back.                  *)

\* the parts of the state a specification does not use stay at these values
ValueIdle ==
    /\ val = 0 /\ flen = 0 /\ vpc = "off" /\ wres = 0 /\ rres = 0
CodecIdle ==
    /\ store = 0 /\ hist = 0 /\ known = 0 /\ phase = "off" /\ din = 0
    /\ dpos = 0 /\ dset = 0 /\ dsets = 0 /\ st0 = 0 /\ res = 0
LockIdle ==
    /\ lock = 0 /\ slot = 0 /\ pc = 0 /\ call = 0 /\ local = 0 /\ ret = 0
    /\ installed = 0

NoW == [ok |-> FALSE, err |-> "unset", bytes |-> << >>]
NoR == RErr("unset", 0)

InitValue ==
    /\ val \in Values
    /\ flen \in FieldLengths
    /\ vpc = "start"
    /\ wres = NoW
    /\ rres = NoR
    /\ CodecIdle
    /\ LockIdle

\* DataRecordValue::write_options(&mut writer, Endian::Big, (flen,))
EncodeValue ==
    /\ vpc = "start"
    /\ wres' = WriteValue(val, flen)
    /\ vpc' = "encoded"
    /\ UNCHANGED <<val, flen, rres>>
    /\ UNCHANGED <<codecVars, lockVars>>

\* DataRecordValue::read_options(&mut reader, Endian::Big, (TypeOf(val), flen))
\* on a reader that holds exactly the bytes written
DecodeValue ==
    /\ vpc = "encoded"
    /\ wres.ok
    /\ rres' = ReadValue(wres.bytes, 0, TypeOf(val), flen)
    /\ vpc' = "decoded"
    /\ UNCHANGED <<val, flen, wres>>
    /\ UNCHANGED <<codecVars, lockVars>>

\* the same read on a reader that holds the bytes written less the last one
DecodeTruncated ==
    /\ vpc = "encoded"
    /\ wres.ok
    /\ Len(wres.bytes) > 0
    /\ rres' = ReadValue(SubSeq(wres.bytes, 1, Len(wres.bytes) - 1), 0,
                         TypeOf(val), flen)
    /\ vpc' = "cut"
    /\ UNCHANGED <<val, flen, wres>>
    /\ UNCHANGED <<codecVars, lockVars>>

NextValue == EncodeValue \/ DecodeValue \/ DecodeTruncated

SpecValue == InitValue /\ [][NextValue]_vars

-----------------------------------------------------------------------------
(* Properties of the value codec                                           *)

IsU40 == val.tag = "U40"
IsVar == val.tag \in {"Bytes", "String"}

\* bits 40-63 of a u64: the three most significant bytes
HighBitsSet(x) == \E i \in 1..3 : ToBeBytes(x)[i] # 0

\* C9: encoding U40(x) fails, writing nothing, exactly when one of bits 40-63
\* of x is set; otherwise it writes the 5 low-order bytes of x, big-endian.
C9_U40Encode ==
    (vpc # "start" /\ IsU40) =>
        /\ ~wres.ok <=> HighBitsSet(val.v)
        /\ ~wres.ok => wres.bytes = << >>
        /\ wres.ok => wres.bytes = SubSeq(ToBeBytes(val.v), 4, 8)
        /\ val.v = <<0, 0, 0, 0>> => wres.bytes = <<0, 0, 0, 0, 0>>
        /\ val.v = <<0, 0, 0, 1>> => wres.bytes = <<0, 0, 0, 0, 1>>
        /\ val.v = U40Max => wres.bytes = <<255, 255, 255, 255, 255>>
        /\ val.v = <<0, 256, 0, 0>> => ~wres.ok

C9_Witness == vpc = "encoded" /\ IsU40 /\ val.v = U40Max /\ wres.ok

\* C10: under the sentinel length 0xFFFF a Bytes or String payload of n bytes
\* is written as <<n>> then the payload when n < 255, as <<255, n as 2
\* big-endian bytes>> then the payload when 255 <= n <= 65535, and reading
\* those bytes back under the sentinel returns the identical payload.
C10_VariableLength ==
    (vpc # "start" /\ IsVar /\ flen = U16Max) =>
        LET n == Len(val.v)
        IN  /\ n < 255 => wres.ok /\ wres.bytes = <<n>> \o val.v
            /\ (n >= 255 /\ n <= U16Max) =>
                    /\ wres.ok
                    /\ wres.bytes = <<255, n \div 256, n % 256>> \o val.v
            /\ val = Val("String", <<104, 105>>) => wres.bytes = <<2, 104, 105>>
            /\ n = 300 => SubSeq(wres.bytes, 1, 3) = <<255, 1, 44>>
            /\ (vpc = "decoded" /\ n <= U16Max) =>
                    /\ rres.err = "none"
                    /\ rres.value = val
                    /\ rres.pos = Len(wres.bytes)

C10_Witness ==
    /\ vpc = "decoded" /\ IsVar /\ flen = U16Max
    /\ Len(val.v) = 300 /\ rres.err = "none"

\* C3: reading back the bytes written for v under declared length L, with
\* the type of v and L, returns a value equal to v and consumes exactly the
\* bytes written, for every v and every L.
C3_RoundTrip ==
    vpc = "decoded" =>
        /\ rres.err = "none"
        /\ ValueEq(rres.value, val)
        /\ rres.pos = Len(wres.bytes)

-----------------------------------------------------------------------------
(* Field specifiers and the template registry (template_store.rs)          *)

\* set ids and template ids up to 255 are reserved
ReservedMax == 255

None == <<"None">>
Some(x) == <<"Some", x>>

\* FieldSpecifier::new
FieldSpecifier(en, ie, len) ==
    [information_element_identifier |-> ie, field_length |-> len,
     enterprise_number |-> en]

\* the information-element table handed to the codec as `formatter`:
\* (enterprise number, element id) -> (name, type)
FormatterKeys == { <<(<<0, 0>>), 4>>, <<(<<0, 0>>), 1>>, <<(<<0, 0>>), 82>> }
Formatter(k) ==
    CASE k = <<(<<0, 0>>), 4>> -> <<"protocolIdentifier", "UnsignedInt">>
      [] k = <<(<<0, 0>>), 1>> -> <<"octetDeltaCount", "UnsignedInt">>
      [] k = <<(<<0, 0>>), 82>> -> <<"interfaceName", "String">>

KeyStr(name) == <<"Str", name>>
KeyUnrecognized(fs) == <<"Unrecognized", fs>>

\* ExpandedFieldSpecifier::from_field_spec
from_field_spec(fs) ==
    LET en == IF fs.enterprise_number = None THEN <<0, 0>>
              ELSE fs.enterprise_number[2]
        k == <<en, fs.information_element_identifier>>
        hit == k \in FormatterKeys
    IN  [name |-> IF hit THEN KeyStr(Formatter(k)[1]) ELSE KeyUnrecognized(fs),
         ty |-> IF hit THEN Formatter(k)[2] ELSE "Bytes",
         enterprise_number |-> fs.enterprise_number,
         information_element_identifier |-> fs.information_element_identifier,
         field_length |-> fs.field_length]

\* enum Template
Template(kind, fields) == [kind |-> kind, fields |-> fields]

Expand(kind, field_specifiers) ==
    Template(kind, [i \in 1..Len(field_specifiers) |->
                        from_field_spec(field_specifiers[i])])

\* the u16 keys the model distinguishes: one reserved id and two data ids
ReservedId == ReservedMax
IdA == ReservedMax + 1
IdB == ReservedMax + 2
TemplateIds == {ReservedId, IdA, IdB}

EmptyStore == [id \in TemplateIds |-> None]

\* TemplateStorage::get_template: map.get(&template_id).cloned()
get_template(st, template_id) == st[template_id]

\* insert that keeps an entry already present (entry().or_insert())
insert_template_keep_first(st, template_id, template) ==
    IF st[template_id] = None
    THEN [st EXCEPT ![template_id] = Some(template)]
    ELSE st

\* TemplateStorage::insert_template: map.insert(template_id, template)
insert_template(st, template_id, template) ==
    [st EXCEPT ![template_id] = Some(template)]

\* insert_records that skips the first record of the slice
RECURSIVE insert_records_skip_first(_, _, _)
insert_records_skip_first(st, kind, records) ==
    IF Len(records) <= 1 THEN st
    ELSE insert_records_skip_first(
            insert_template(st, records[2].template_id,
                            Expand(kind, records[2].field_specifiers)),
            kind, Tail(records))

\* TemplateStorage::insert_template_records / insert_options_template_records:
\* every record of the slice is expanded and inserted, in slice order
RECURSIVE insert_records(_, _, _)
insert_records(st, kind, records) ==
    IF records = << >> THEN st
    ELSE insert_records(
            insert_template(st, Head(records).template_id,
                            Expand(kind, Head(records).field_specifiers)),
            kind, Tail(records))

insert_template_records(st, records) == insert_records(st, "Template", records)
insert_options_template_records(st, records) ==
    insert_records(st, "OptionsTemplate", records)

-----------------------------------------------------------------------------
(* The seekable sink and the writers (parser.rs)                           *)

Max(a, b) == IF a > b THEN a ELSE b

\* Write on a Cursor<Vec<u8>>: overwrite at the cursor, grow as needed
SinkWrite(s, bytes) ==
    LET n == Len(bytes)
        newlen == Max(Len(s.buf), s.pos + n)
    IN  [buf |-> [i \in 1..newlen |->
                    IF i > s.pos /\ i <= s.pos + n THEN bytes[i - s.pos]
                    ELSE IF i <= Len(s.buf) THEN s.buf[i] ELSE 0],
         pos |-> s.pos + n]

SOk(s) == [err |-> "none", arg |-> 0, sink |-> s]
SErr(e, a, s) == [err |-> e, arg |-> a, sink |-> s]

\* util::write_position_at(s, at, offset): overwrite the u16 at `at` with
\* the current position less `offset`, leaving the cursor where it was
write_position_at(s, at, offset) ==
    LET value == s.pos - offset
    IN  IF value < 0 \/ value > U16Max THEN SErr("TryFromInt", 0, s)
        ELSE SOk([buf |-> SinkWrite([buf |-> s.buf, pos |-> at],
                                    U16Bytes(value)).buf,
                  pos |-> s.pos])

\* #[binrw] struct FieldSpecifier, write side
WriteFieldSpecifier(fs) ==
    LET ie == fs.information_element_identifier
        flag == IF fs.enterprise_number = None THEN 0 ELSE 1
        raw == IF flag = 1 /\ ie < 32768 THEN ie + 32768 ELSE ie
    IN  U16Bytes(raw) \o U16Bytes(fs.field_length)
        \o (IF flag = 1 THEN ToBeBytes(fs.enterprise_number[2]) ELSE << >>)

RECURSIVE WriteFieldSpecifiers(_)
WriteFieldSpecifiers(fss) ==
    IF fss = << >> THEN << >>
    ELSE WriteFieldSpecifier(Head(fss)) \o WriteFieldSpecifiers(Tail(fss))

\* #[binrw] struct TemplateRecord, write side (no assertion on write)
WriteTemplateRecord(r) ==
    U16Bytes(r.template_id) \o U16Bytes(Len(r.field_specifiers))
    \o WriteFieldSpecifiers(r.field_specifiers)

\* #[binrw] struct OptionsTemplateRecord, write side
WriteOptionsTemplateRecord(r) ==
    U16Bytes(r.template_id) \o U16Bytes(Len(r.field_specifiers))
    \o U16Bytes(r.scope_field_count)
    \o WriteFieldSpecifiers(r.field_specifiers)

\* the loop of DataRecord::write_options over field_specifiers[i..]
RECURSIVE WriteFields(_, _, _, _)
WriteFields(fields, i, values, s) ==
    IF i > Len(fields) THEN SOk(s)
    ELSE LET f == fields[i]
         IN  IF f.name \notin DOMAIN values
             THEN SErr("MissingData", f.name, s)
             ELSE LET w == WriteValue(values[f.name], f.field_length)
                  IN  IF ~w.ok THEN SErr(w.err, 0, s)
                      ELSE WriteFields(fields, i + 1, values,
                                       SinkWrite(s, w.bytes))

\* WriteFields walking the template from its last field to its first
RECURSIVE WriteFieldsReversed(_, _, _, _)
WriteFieldsReversed(fields, i, values, s) ==
    IF i > Len(fields) THEN SOk(s)
    ELSE LET f == fields[Len(fields) + 1 - i]
         IN  IF f.name \notin DOMAIN values
             THEN SErr("MissingData", f.name, s)
             ELSE LET w == WriteValue(values[f.name], f.field_length)
                  IN  IF ~w.ok THEN SErr(w.err, 0, s)
                      ELSE WriteFieldsReversed(fields, i + 1, values,
                                               SinkWrite(s, w.bytes))

\* WriteDataRecord with the reversed field loop
WriteDataRecordReversed(st, set_id, rec, s) ==
    LET t == get_template(st, set_id)
    IN  IF t = None THEN SErr("MissingTemplate", set_id, s)
        ELSE WriteFieldsReversed(t[2].fields, 1, rec.values, s)

\* impl BinWrite for DataRecord
WriteDataRecord(st, set_id, rec, s) ==
    LET t == get_template(st, set_id)
    IN  IF t = None THEN SErr("MissingTemplate", set_id, s)
        ELSE WriteFields(t[2].fields, 1, rec.values, s)

\* Vec<DataRecord> written with args (set_id, templates): element by element
RECURSIVE WriteDataRecords(_, _, _, _)
WriteDataRecords(st, set_id, data, s) ==
    IF data = << >> THEN SOk(s)
    ELSE LET r == WriteDataRecord(st, set_id, Head(data), s)
         IN  IF r.err # "none" THEN r
             ELSE WriteDataRecords(st, set_id, Tail(data), r.sink)

RECURSIVE ConcatMap(_, _)
ConcatMap(Op(_), seq) ==
    IF seq = << >> THEN << >> ELSE Op(Head(seq)) \o ConcatMap(Op, Tail(seq))

TemplateRecords(recs) == [kind |-> "Template", recs |-> recs]
OptionsTemplateRecords(recs) == [kind |-> "OptionsTemplate", recs |-> recs]
DataRecords(set_id, data) == [kind |-> "Data", set_id |-> set_id, data |-> data]

\* Records::set_id
RecordsSetId(records) ==
    CASE records.kind = "Template" -> 2
      [] records.kind = "OptionsTemplate" -> 3
      [] records.kind = "Data" -> records.set_id

\* #[binrw] enum Records, write side
WriteRecords(st, records, s) ==
    CASE records.kind = "Template" ->
            SOk(SinkWrite(s, ConcatMap(WriteTemplateRecord, records.recs)))
      [] records.kind = "OptionsTemplate" ->
            SOk(SinkWrite(s, ConcatMap(WriteOptionsTemplateRecord, records.recs)))
      [] records.kind = "Data" ->
            WriteDataRecords(st, records.set_id, records.data, s)

\* util::stream_position: the cursor as a u16
stream_position(s) ==
    IF s.pos > U16Max THEN [err |-> "TryFromInt", value |-> 0]
    ELSE [err |-> "none", value |-> s.pos]

\* #[bw(align_after = alignment)]: zero bytes up to the next multiple of
\* alignment of the absolute stream position
AlignAfter(s, alignment) ==
    SinkWrite(s, Fill((alignment - (s.pos % alignment)) % alignment, 0))

\* #[binrw] struct Set, write side
WriteSet(st, set, alignment, s) ==
    LET s1 == SinkWrite(s, U16Bytes(RecordsSetId(set.records)))
        length == stream_position(s1)
    IN  IF length.err # "none" THEN SErr(length.err, 0, s1)
        ELSE LET s2 == SinkWrite(s1, U16Bytes(length.value))
                 r == WriteRecords(st, set.records, s2)
             IN  IF r.err # "none" THEN r
                 ELSE write_position_at(AlignAfter(r.sink, alignment),
                                        length.value, length.value - 2)

RECURSIVE WriteSets(_, _, _, _)
WriteSets(st, sets, alignment, s) ==
    IF sets = << >> THEN SOk(s)
    ELSE LET r == WriteSet(st, Head(sets), alignment, s)
         IN  IF r.err # "none" THEN r
             ELSE WriteSets(st, Tail(sets), alignment, r.sink)

MessageMagic == 10

\* #[binrw] struct Message, write side
WriteMessage(st, msg, alignment, s) ==
    LET s1 == SinkWrite(s, U16Bytes(MessageMagic))
        length == stream_position(s1)
    IN  IF length.err # "none" THEN SErr(length.err, 0, s1)
        ELSE LET s2 == SinkWrite(s1, U16Bytes(length.value)
                                     \o ToBeBytes(msg.export_time)
                                     \o ToBeBytes(msg.sequence_number)
                                     \o ToBeBytes(msg.observation_domain_id))
                 r == WriteSets(st, msg.sets, alignment, s2)
             IN  IF r.err # "none" THEN r
                 ELSE write_position_at(r.sink, length.value, 0)

Message(sets) ==
    [export_time |-> <<25000, 1>>, sequence_number |-> <<0, 7>>,
     observation_domain_id |-> <<0, 1>>, sets |-> sets]

-----------------------------------------------------------------------------
(* The readers (parser.rs)                                                 *)

Min(a, b) == IF a < b THEN a ELSE b

\* #[binrw] struct FieldSpecifier, read side
ReadFieldSpecifier(buf, pos) ==
    LET h == Take(buf, pos, 4)
    IN  IF h.err # "none" THEN [err |-> h.err, value |-> 0, pos |-> pos]
        ELSE LET raw == U16Of(SubSeq(h.bytes, 1, 2))
                 len == U16Of(SubSeq(h.bytes, 3, 4))
                 ie == raw % 32768
             IN  IF raw \div 32768 = 1
                 THEN LET e == Take(buf, h.pos, 4)
                      IN  IF e.err # "none"
                          THEN [err |-> e.err, value |-> 0, pos |-> pos]
                          ELSE [err |-> "none", pos |-> e.pos,
                                value |-> FieldSpecifier(
                                    Some(FromBeBytes(e.bytes)), ie, len)]
                 ELSE [err |-> "none", pos |-> h.pos,
                       value |-> FieldSpecifier(None, ie, len)]

\* #[br(count = field_count)] Vec<FieldSpecifier>
RECURSIVE ReadFieldSpecifiers(_, _, _, _)
ReadFieldSpecifiers(buf, pos, n, acc) ==
    IF n = 0 THEN [err |-> "none", value |-> acc, pos |-> pos]
    ELSE LET f == ReadFieldSpecifier(buf, pos)
         IN  IF f.err # "none" THEN f
             ELSE ReadFieldSpecifiers(buf, f.pos, n - 1, Append(acc, f.value))

TemplateRecord(template_id, field_specifiers) ==
    [template_id |-> template_id, field_specifiers |-> field_specifiers]

OptionsTemplateRecord(template_id, scope_field_count, field_specifiers) ==
    [template_id |-> template_id, scope_field_count |-> scope_field_count,
     field_specifiers |-> field_specifiers]

\* #[binrw] struct TemplateRecord, read side; the struct-level assertion is
\* evaluated once the fields are read
ReadTemplateRecord(buf, pos) ==
    LET h == Take(buf, pos, 4)
    IN  IF h.err # "none" THEN [err |-> h.err, value |-> 0, pos |-> pos]
        ELSE LET id == U16Of(SubSeq(h.bytes, 1, 2))
                 fs == ReadFieldSpecifiers(buf, h.pos,
                                           U16Of(SubSeq(h.bytes, 3, 4)), << >>)
             IN  IF fs.err # "none" THEN fs
                 ELSE IF ~(id > ReservedMax)
                 THEN [err |-> "ReservedTemplateId", value |-> id, pos |-> pos]
                 ELSE [err |-> "none", pos |-> fs.pos,
                       value |-> TemplateRecord(id, fs.value)]

\* #[binrw] struct OptionsTemplateRecord, read side
ReadOptionsTemplateRecord(buf, pos) ==
    LET h == Take(buf, pos, 6)
    IN  IF h.err # "none" THEN [err |-> h.err, value |-> 0, pos |-> pos]
        ELSE LET id == U16Of(SubSeq(h.bytes, 1, 2))
                 fs == ReadFieldSpecifiers(buf, h.pos,
                                           U16Of(SubSeq(h.bytes, 3, 4)), << >>)
             IN  IF fs.err # "none" THEN fs
                 ELSE IF ~(id > ReservedMax)
                 THEN [err |-> "ReservedTemplateId", value |-> id, pos |-> pos]
                 ELSE [err |-> "none", pos |-> fs.pos,
                       value |-> OptionsTemplateRecord(
                                    id, U16Of(SubSeq(h.bytes, 5, 6)), fs.value)]

NoValues == << >>
DataRecord(values) == [values |-> values]

\* the loop of DataRecord::read_options over field_specifiers[i..]
RECURSIVE ReadFields(_, _, _, _, _)
ReadFields(fields, i, buf, pos, values) ==
    IF i > Len(fields)
    THEN [err |-> "none", value |-> DataRecord(values), pos |-> pos]
    ELSE LET f == fields[i]
             v == ReadValue(buf, pos, f.ty, f.field_length)
         IN  IF v.err # "none" THEN [err |-> v.err, value |-> 0, pos |-> pos]
             ELSE ReadFields(fields, i + 1, buf, v.pos,
                             (f.name :> v.value) @@ values)

\* impl BinRead for DataRecord
ReadDataRecord(st, set_id, buf, pos) ==
    LET t == get_template(st, set_id)
    IN  IF t = None
        THEN [err |-> "MissingTemplate", value |-> set_id, pos |-> pos]
        ELSE ReadFields(t[2].fields, 1, buf, pos, NoValues)

\* one element read of the Vec inside #[binrw] enum Records
ReadRecord(st, kind, set_id, buf, pos) ==
    CASE kind = "Template" -> ReadTemplateRecord(buf, pos)
      [] kind = "OptionsTemplate" -> ReadOptionsTemplateRecord(buf, pos)
      [] kind = "Data" -> ReadDataRecord(st, set_id, buf, pos)

\* the variant of Records whose pre_assert admits set_id
RecordsKind(set_id) ==
    IF set_id = 2 THEN "Template"
    ELSE IF set_id = 3 THEN "OptionsTemplate"
    ELSE IF set_id > ReservedMax THEN "Data"
    ELSE "none"

\* the header of #[binrw] struct Set: set_id, length, assert(length > 4)
SetHeaderLen == 4
ReadSetHeader(buf, pos) ==
    LET h == Take(buf, pos, SetHeaderLen)
    IN  IF h.err # "none" THEN [err |-> h.err, pos |-> pos]
        ELSE LET id == U16Of(SubSeq(h.bytes, 1, 2))
                 length == U16Of(SubSeq(h.bytes, 3, 4))
             IN  IF ~(length > SetHeaderLen)
                 THEN [err |-> "InvalidSetLength", pos |-> pos]
                 ELSE IF RecordsKind(id) = "none"
                 THEN [err |-> "ReservedSetId", pos |-> pos, set_id |-> id]
                 ELSE [err |-> "none", pos |-> h.pos, set_id |-> id,
                       kind |-> RecordsKind(id),
                       limit |-> length - SetHeaderLen]

\* the header of #[binrw] struct Message: magic, length, three u32
MessageHeaderLen == 16
ReadMessageHeader(buf) ==
    LET m == Take(buf, 0, 2)
        h == Take(buf, 0, MessageHeaderLen)
    IN  IF m.err # "none" THEN [err |-> m.err]
        ELSE IF U16Of(m.bytes) # MessageMagic THEN [err |-> "BadMagic"]
        ELSE IF h.err # "none" THEN [err |-> h.err]
        ELSE [err |-> "none", pos |-> h.pos,
              export_time |-> FromBeBytes(SubSeq(h.bytes, 5, 8)),
              sequence_number |-> FromBeBytes(SubSeq(h.bytes, 9, 12)),
              observation_domain_id |-> FromBeBytes(SubSeq(h.bytes, 13, 16))]

-----------------------------------------------------------------------------
(* Inputs of the Message codec                                             *)

FS_proto == FieldSpecifier(None, 4, 1)
FS_octets == FieldSpecifier(None, 1, 5)
FS_name == FieldSpecifier(None, 82, U16Max)
FS_ent == FieldSpecifier(Some(<<0, 7>>), 10, 2)
FS_empty == FieldSpecifier(None, 82, 0)

FieldsA == <<FS_proto, FS_octets>>
FieldsB == <<FS_name, FS_ent>>
FieldsC == <<FS_octets, FS_proto>>
\* a template that lists one information element twice
FieldsDup == <<FS_proto, FS_proto>>

K_proto == KeyStr("protocolIdentifier")
K_octets == KeyStr("octetDeltaCount")
K_name == KeyStr("interfaceName")
K_ent == KeyUnrecognized(FS_ent)

RecA1 == DataRecord((K_proto :> Val("U8", 6)) @@ (K_octets :> Val("U40", <<0, 17, 8755, 17493>>)))
RecA2 == DataRecord((K_proto :> Val("U8", 17)) @@ (K_octets :> Val("U40", U40Max)))
RecB1 == DataRecord((K_name :> Val("String", <<104, 105>>)) @@ (K_ent :> Val("Bytes", <<1, 2>>)))
\* records a caller can build that do not fit their template
RecNoOctets == DataRecord(K_proto :> Val("U8", 6))
RecWideOctets == DataRecord((K_proto :> Val("U8", 6)) @@ (K_octets :> Val("U40", <<0, 256, 0, 0>>)))
RecWideOnly == DataRecord(K_octets :> Val("U40", <<0, 256, 0, 0>>))
RecEmpty == DataRecord(NoValues)

TemplateChoices ==
    { Expand("Template", FieldsA), Expand("Template", FieldsC),
      Expand("OptionsTemplate", FieldsB) }

\* the bytes of a Data Record of the given template, field by field
RECURSIVE RawRecord(_, _)
RawRecord(fields, rec) ==
    IF fields = << >> THEN << >>
    ELSE LET f == from_field_spec(Head(fields))
         IN  WriteValue(rec.values[f.name], f.field_length).bytes
             \o RawRecord(Tail(fields), rec)

RawSet(set_id, length, content) == U16Bytes(set_id) \o U16Bytes(length) \o content
RawSetOf(set_id, content) == RawSet(set_id, Len(content) + SetHeaderLen, content)

RawHeader(length) ==
    U16Bytes(MessageMagic) \o U16Bytes(length)
    \o ToBeBytes(<<25000, 1>>) \o ToBeBytes(<<0, 7>>) \o ToBeBytes(<<0, 1>>)
RawMessage(sets) == RawHeader(MessageHeaderLen + Len(sets)) \o sets

RawTemplateA == RawSetOf(2, WriteTemplateRecord(TemplateRecord(IdA, FieldsA)))
RawTemplateAB ==
    RawSetOf(2, WriteTemplateRecord(TemplateRecord(IdA, FieldsA))
                \o WriteTemplateRecord(TemplateRecord(IdB, FieldsC)))
RawOptionsB ==
    RawSetOf(3, WriteOptionsTemplateRecord(OptionsTemplateRecord(IdB, 1, FieldsB)))
RawDataA1 == RawSetOf(IdA, RawRecord(FieldsA, RecA1))
RawDataA12 == RawSetOf(IdA, RawRecord(FieldsA, RecA1) \o RawRecord(FieldsA, RecA2))
RawDataB1 == RawSetOf(IdB, RawRecord(FieldsB, RecB1))

SetTemplateA == [records |-> TemplateRecords(<<TemplateRecord(IdA, FieldsA)>>)]
SetTemplateAB ==
    [records |-> TemplateRecords(<<TemplateRecord(IdA, FieldsA),
                                   TemplateRecord(IdB, FieldsC)>>)]
SetOptionsB ==
    [records |-> OptionsTemplateRecords(<<OptionsTemplateRecord(IdB, 1, FieldsB)>>)]
SetDataA1 == [records |-> DataRecords(IdA, <<RecA1>>)]
SetDataA12 == [records |-> DataRecords(IdA, <<RecA1, RecA2>>)]
SetDataB1 == [records |-> DataRecords(IdB, <<RecB1>>)]

\* a well-formed input: the bytes, the Message they stand for, and for each
\* Set the template its Data Records were laid out for (None: not a Data Set)
Input(name, bytes, sets, shapes) ==
    [name |-> name, bytes |-> bytes, wf |-> TRUE,
     msg |-> Message(sets), shapes |-> shapes]
\* a malformed input: bytes only
Malformed(name, bytes) ==
    [name |-> name, bytes |-> bytes, wf |-> FALSE,
     msg |-> Message(<< >>), shapes |-> << >>]

ShapeA == Some(Expand("Template", FieldsA))
ShapeB == Some(Expand("OptionsTemplate", FieldsB))

WellFormedInputs ==
    { Input("T", RawMessage(RawTemplateA), <<SetTemplateA>>, <<None>>),
      Input("TT", RawMessage(RawTemplateAB), <<SetTemplateAB>>, <<None>>),
      Input("O", RawMessage(RawOptionsB), <<SetOptionsB>>, <<None>>),
      Input("D", RawMessage(RawDataA1), <<SetDataA1>>, <<ShapeA>>),
      Input("DB", RawMessage(RawDataB1), <<SetDataB1>>, <<ShapeB>>),
      Input("TD", RawMessage(RawTemplateA \o RawDataA12),
            <<SetTemplateA, SetDataA12>>, <<None, ShapeA>>),
      Input("DT", RawMessage(RawDataA1 \o RawTemplateA),
            <<SetDataA1, SetTemplateA>>, <<ShapeA, None>>),
      Input("ODD", RawMessage(RawOptionsB \o RawDataB1 \o RawDataA1),
            <<SetOptionsB, SetDataB1, SetDataA1>>, <<None, ShapeB, ShapeA>>),
      Input("Empty", RawMessage(<< >>), << >>, << >>) }

CutLast(bytes, k) == SubSeq(bytes, 1, Len(bytes) - k)

MalformedInputs ==
    { \* the buffer ends inside the last Data Record
      Malformed("CutRecord", CutLast(RawMessage(RawTemplateA \o RawDataA12), 1)),
      \* the buffer ends inside the header of a second Set
      Malformed("CutSetHeader2", RawMessage(RawTemplateA) \o <<1, 0>>),
      Malformed("CutSetHeader3",
                CutLast(RawMessage(RawTemplateA \o RawDataA1), Len(RawDataA1) - 3)),
      \* the Set declares 5 bytes of content, its record needs 6
      Malformed("ShortSet",
                RawMessage(RawTemplateA
                           \o RawSet(IdA, 9, RawRecord(FieldsA, RecA1))
                           \o RawDataA1)),
      Malformed("SetLength4", RawMessage(RawSet(IdA, 4, << >>))),
      Malformed("ReservedSet", RawMessage(RawSetOf(ReservedId, <<0, 0, 0, 0>>))),
      Malformed("ReservedTemplate",
                RawMessage(RawSetOf(2, WriteTemplateRecord(
                                            TemplateRecord(ReservedId, FieldsA))))),
      Malformed("ThenReservedTemplate",
                RawMessage(RawSetOf(2,
                    WriteTemplateRecord(TemplateRecord(IdA, FieldsA))
                    \o WriteTemplateRecord(TemplateRecord(ReservedId, FieldsA))))),
      Malformed("BadMagic", <<0, 9>> \o Tail(Tail(RawMessage(RawTemplateA)))),
      Malformed("CutHeader", SubSeq(RawMessage(RawTemplateA), 1, 10)),
      \* the buffer ends inside the second record of a Template Set
      Malformed("CutTemplate", CutLast(RawMessage(RawTemplateAB), 3)),
      \* the Set's declared length ends inside its second record
      Malformed("ShortTemplateSet",
                RawMessage(RawSet(2, Len(RawTemplateA) + 6,
                                  WriteTemplateRecord(TemplateRecord(IdA, FieldsA))
                                  \o WriteTemplateRecord(TemplateRecord(IdB, FieldsC))))),
      \* two records of one Template Set give the same id
      Malformed("SameIdTwice",
                RawMessage(RawSetOf(2,
                    WriteTemplateRecord(TemplateRecord(IdA, FieldsA))
                    \o WriteTemplateRecord(TemplateRecord(IdA, FieldsC))))),
      \* a template listing protocolIdentifier twice, then one record of it
      Malformed("DupField",
                RawMessage(RawSetOf(2, WriteTemplateRecord(
                                            TemplateRecord(IdA, FieldsDup)))
                           \o RawSetOf(IdA, <<6, 17>>))),
      \* a Template Record with no field specifier, then a Data Set of its id
      Malformed("ZeroFields",
                RawMessage(RawSetOf(2, WriteTemplateRecord(TemplateRecord(IdA, << >>)))
                           \o RawDataA1)),
      \* a template whose only field is a String of declared length 0
      Malformed("ZeroLength",
                RawMessage(RawSetOf(2, WriteTemplateRecord(
                                            TemplateRecord(IdA, <<FS_empty>>)))
                           \o RawDataA1)) }

DecodeInputs == WellFormedInputs \cup MalformedInputs

EncodeMessages ==
    { Message(<< >>),
      Message(<<SetTemplateA>>),
      Message(<<SetTemplateAB, SetDataA12>>),
      Message(<<SetDataB1, SetOptionsB>>),
      Message(<<SetDataA1, SetDataB1>>),
      \* ids a caller can put in the structures although they are reserved
      Message(<<[records |-> TemplateRecords(<<TemplateRecord(ReservedId, FieldsA)>>)]>>),
      Message(<<[records |-> DataRecords(ReservedId, << >>)]>>) }

EncodeRecords == {RecA1, RecB1, RecNoOctets, RecWideOctets, RecWideOnly, RecEmpty}

\* where the sink's cursor stands when the encode begins (the sink already
\* holds that many bytes), and the alignment values handed to the writer
Starts == {0, 5}
Alignments == {1, 4}

-----------------------------------------------------------------------------
(* The registry and the Message codec as a state machine.  The registry    *)
(* is the single-owner backend: one operation runs at a time.  A decode    *)
(* advances one Set header, one record or one Set end per step.            *)

MaxHist == 3

\* the records of one Set the model keeps reading: a Set read that is still
\* running after this many records is left where it stands
MaxRecords == 3

NoSet == [kind |-> "none", set_id |-> 0, begin |-> 0, end |-> 0, recs |-> << >>]
NoInput == Malformed("none", << >>)

Init ==
    /\ store = EmptyStore
    /\ hist = << >>
    /\ known = {}
    /\ phase = "idle"
    /\ din = NoInput
    /\ dpos = 0
    /\ dset = NoSet
    /\ dsets = << >>
    /\ st0 = EmptyStore
    /\ res = NoRes
    /\ ValueIdle
    /\ LockIdle

decodeVars == <<phase, din, dpos, dset, dsets, st0>>

\* the Message a finished read returns: the header fields and the Sets
DecodedMessage(bytes, sets) ==
    LET h == ReadMessageHeader(bytes)
    IN  [export_time |-> h.export_time, sequence_number |-> h.sequence_number,
         observation_domain_id |-> h.observation_domain_id, sets |-> sets]

\* a caller's templates.insert_template(id, template)
InsertTemplate(id, template) ==
    /\ phase = "idle"
    /\ store' = insert_template(store, id, template)
    /\ known' = known \cup {id}
    /\ res' = Res("insert", "none", 0, 0, id)
    /\ din' = NoInput /\ dpos' = 0 /\ dset' = NoSet /\ dsets' = << >>
    /\ st0' = EmptyStore
    /\ UNCHANGED <<hist, phase>>
    /\ UNCHANGED <<valueVars, lockVars>>

\* Message::read begins: the 16-byte header
DecodeBegin(input) ==
    /\ phase = "idle"
    /\ LET h == ReadMessageHeader(input.bytes)
       IN  /\ din' = input
           /\ st0' = store
           /\ dsets' = << >>
           /\ dset' = NoSet
           /\ IF h.err # "none"
              THEN /\ res' = Res("decode", h.err, 0, 0, 0)
                   /\ dpos' = 0
                   /\ phase' = "idle"
              ELSE /\ res' = NoRes
                   /\ dpos' = h.pos
                   /\ phase' = "sets"
    /\ UNCHANGED <<store, hist, known>>
    /\ UNCHANGED <<valueVars, lockVars>>

\* one iteration of until_eof: the next Set's header is read; an
\* end-of-file error there ends the Vec<Set> and the Message is complete
DecodeSet ==
    /\ phase = "sets"
    /\ LET h == ReadSetHeader(din.bytes, dpos)
       IN  IF h.err = "Eof"
           THEN /\ res' = Res("decode", "none", 0,
                              DecodedMessage(din.bytes, dsets), 0)
                /\ phase' = "idle"
                /\ UNCHANGED <<dset, dpos>>
           ELSE IF h.err # "none"
           THEN /\ res' = Res("decode", h.err, 0, 0, 0)
                /\ phase' = "idle"
                /\ UNCHANGED <<dset, dpos>>
           ELSE /\ dset' = [kind |-> h.kind, set_id |-> h.set_id,
                            begin |-> h.pos,
                            end |-> h.pos + h.limit, recs |-> << >>]
                /\ dpos' = h.pos
                /\ phase' = "records"
                /\ UNCHANGED res
    /\ UNCHANGED <<store, hist, known, din, dsets, st0>>
    /\ UNCHANGED <<valueVars, lockVars>>

\* the reader until_limit hands to its element parser: the stream up to the
\* end of the Set's budget
Limited(bytes, end) == SubSeq(bytes, 1, Min(end, Len(bytes)))

\* a registry that takes each Template Record as soon as it is read
StoreAfterRecordEager(st, kind) ==
    LET r == ReadRecord(st, kind, dset.set_id, Limited(din.bytes, dset.end), dpos)
    IN  IF kind # "Data" /\ r.err = "none"
        THEN insert_records(st, kind, <<r.value>>)
        ELSE st

\* the registry after one element of the Vec is read: the `map` that
\* installs runs on the whole Vec, an element read leaves the registry alone
StoreAfterRecord(st, kind) == st

\* one iteration of until_limit with budget left: one record is read
DecodeRecord ==
    /\ phase = "records"
    /\ dpos < dset.end
    /\ Len(dset.recs) < MaxRecords
    /\ LET r == ReadRecord(store, dset.kind, dset.set_id,
                           Limited(din.bytes, dset.end), dpos)
       IN  IF r.err # "none"
           THEN /\ res' = Res("decode", r.err,
                              IF r.err = "MissingTemplate" THEN r.value ELSE 0,
                              0, 0)
                /\ phase' = "idle"
                /\ UNCHANGED <<dset, dpos>>
           ELSE /\ dset' = [dset EXCEPT !.recs = Append(@, r.value)]
                /\ dpos' = r.pos
                /\ UNCHANGED <<res, phase>>
    /\ store' = StoreAfterRecord(store, dset.kind)
    /\ UNCHANGED <<hist, known, din, dsets, st0>>
    /\ UNCHANGED <<valueVars, lockVars>>

IdsOf(recs) == {recs[i].template_id : i \in 1..Len(recs)}

HistOf(kind, recs) ==
    [i \in 1..Len(recs) |->
        <<recs[i].template_id, Expand(kind, recs[i].field_specifiers)>>]

\* until_limit's budget is used up: the Vec is complete, the `map` of a
\* Template or Options Template variant installs its records, and
\* pad_size_to skips to the end of the Set
DecodeSetEnd ==
    /\ phase = "records"
    /\ dpos >= dset.end
    /\ IF dset.kind = "Template"
       THEN /\ store' = insert_template_records(store, dset.recs)
            /\ known' = known \cup IdsOf(dset.recs)
            /\ dsets' = Append(dsets, [records |-> TemplateRecords(dset.recs)])
       ELSE IF dset.kind = "OptionsTemplate"
       THEN /\ store' = insert_options_template_records(store, dset.recs)
            /\ known' = known \cup IdsOf(dset.recs)
            /\ dsets' = Append(dsets, [records |-> OptionsTemplateRecords(dset.recs)])
       ELSE /\ dsets' = Append(dsets,
                               [records |-> DataRecords(dset.set_id, dset.recs)])
            /\ UNCHANGED <<store, known>>
    /\ dpos' = Max(dpos, dset.end)
    /\ phase' = "sets"
    /\ UNCHANGED <<hist, din, dset, st0, res>>
    /\ UNCHANGED <<valueVars, lockVars>>

Next ==
    \/ \E id \in TemplateIds, t \in TemplateChoices : InsertTemplate(id, t)
    \/ \E input \in DecodeInputs : DecodeBegin(input)
    \/ DecodeSet
    \/ DecodeRecord
    \/ DecodeSetEnd

\* decoding: Message::read calls and a caller's inserts against one registry
Spec == Init /\ [][Next]_vars

\* Message::write_options on a sink whose cursor stands at `start`
EncodeMessage(msg, start, alignment) ==
    /\ phase = "idle"
    /\ LET r == WriteMessage(store, msg, alignment,
                             [buf |-> Fill(start, 170), pos |-> start])
       IN  res' = Res("encode", r.err, r.arg, r.sink,
                      [msg |-> msg, start |-> start, alignment |-> alignment])
    /\ UNCHANGED <<store, hist, known, decodeVars>>
    /\ UNCHANGED <<valueVars, lockVars>>

\* DataRecord::write_options with args (set_id, templates) on an empty sink
EncodeRecord(set_id, rec) ==
    /\ phase = "idle"
    /\ LET r == WriteDataRecord(store, set_id, rec, [buf |-> << >>, pos |-> 0])
       IN  res' = Res("record", r.err, r.arg, r.sink,
                      [set_id |-> set_id, rec |-> rec])
    /\ UNCHANGED <<store, hist, known, decodeVars>>
    /\ UNCHANGED <<valueVars, lockVars>>

NextEncode ==
    \/ \E id \in TemplateIds, t \in TemplateChoices : InsertTemplate(id, t)
    \/ \E msg \in EncodeMessages, start \in Starts, alignment \in Alignments :
          EncodeMessage(msg, start, alignment)
    \/ \E id \in TemplateIds, rec \in EncodeRecords : EncodeRecord(id, rec)

\* encoding: write_options calls and a caller's inserts against one registry
SpecEncode == Init /\ [][NextEncode]_vars

\* the registry alone: a caller's insert_template and get_template calls
StoreInsert(id, template) ==
    /\ Len(hist) < MaxHist
    /\ store' = insert_template(store, id, template)
    /\ hist' = Append(hist, <<id, template>>)
    /\ known' = known \cup {id}
    /\ res' = Res("insert", "none", 0, 0, id)
    /\ UNCHANGED decodeVars
    /\ UNCHANGED <<valueVars, lockVars>>

StoreGet(id) ==
    /\ res' = Res("get", "none", 0, get_template(store, id), id)
    /\ UNCHANGED <<store, hist, known, decodeVars>>
    /\ UNCHANGED <<valueVars, lockVars>>

RecordSlices ==
    { <<TemplateRecord(IdA, FieldsA), TemplateRecord(IdA, FieldsC)>>,
      <<TemplateRecord(IdB, FieldsC)>> }

\* a caller's templates.insert_template_records(slice, &formatter)
StoreInsertRecords(recs) ==
    /\ Len(hist) + Len(recs) <= MaxHist
    /\ store' = insert_template_records(store, recs)
    /\ hist' = hist \o HistOf("Template", recs)
    /\ known' = known \cup IdsOf(recs)
    /\ res' = Res("insert", "none", 0, 0, 0)
    /\ UNCHANGED decodeVars
    /\ UNCHANGED <<valueVars, lockVars>>

NextStore ==
    \/ \E id \in TemplateIds, t \in TemplateChoices : StoreInsert(id, t)
    \/ \E id \in TemplateIds : StoreGet(id)
    \/ \E recs \in RecordSlices : StoreInsertRecords(recs)

SpecStore == Init /\ [][NextStore]_vars

-----------------------------------------------------------------------------
(* Properties of the registry                                              *)

\* the template of the most recent insert_template(id, _) of a history
LastInsert(h, id) ==
    LET at == {i \in 1..Len(h) : h[i][1] = id}
    IN  IF at = {} THEN None
        ELSE Some(h[CHOOSE i \in at : \A j \in at : j <= i][2])

RegistryIsLastInsert ==
    /\ \A id \in TemplateIds : get_template(store, id) = LastInsert(hist, id)
    /\ res.op = "get" => res.out = LastInsert(hist, res.in)

NeverRemoves ==
    \A id \in TemplateIds : store[id] # None => store'[id] # None

\* C7: get_template(id) returns the template of the most recent
\* insert_template(id, _), None if there was none: an insert overwrites the
\* entry of its id and no other, get_template changes nothing, and no
\* operation removes an entry.
C7_RegistryMap == [](RegistryIsLastInsert) /\ [][NeverRemoves]_vars

C7_Witness ==
    /\ Len(hist) >= 2
    /\ hist[1][1] = hist[2][1] /\ hist[1][2] # hist[2][2]
    /\ res.op = "get" /\ res.in = hist[1][1]
    /\ res.out = Some(hist[2][2])

-----------------------------------------------------------------------------
(* Properties of decoding                                                  *)

\* the registry a Template or Options Template Set leaves behind
RECURSIVE AfterRecords(_, _, _)
AfterRecords(m, kind, recs) ==
    IF recs = << >> THEN m
    ELSE AfterRecords(
            [id \in DOMAIN m |->
                IF id = Head(recs).template_id
                THEN Some(Expand(kind, Head(recs).field_specifiers))
                ELSE m[id]],
            kind, Tail(recs))

\* what reading the Sets i.. of a well-formed input must give when the
\* registry maps ids as m does: <<"ok">>, <<"MissingTemplate", id>>, or
\* <<"unspecified">> when a Data Set was laid out for another template
RECURSIVE Expect(_, _, _, _)
Expect(sets, shapes, i, m) ==
    IF i > Len(sets) THEN <<"ok">>
    ELSE LET r == sets[i].records
         IN  IF r.kind = "Data"
             THEN IF m[r.set_id] = None THEN <<"MissingTemplate", r.set_id>>
                  ELSE IF m[r.set_id] # shapes[i] THEN <<"unspecified">>
                  ELSE Expect(sets, shapes, i + 1, m)
             ELSE Expect(sets, shapes, i + 1, AfterRecords(m, r.kind, r.recs))

DecodeDone == phase = "idle" /\ res.op = "decode"

\* C1: reading a well-formed Data Set with set-id T fails with
\* MissingTemplate(T) when no template was installed for T before it (by an
\* insert, or by a Template or Options Template Set read earlier), and
\* succeeds with the expected records once one was; [Data(T), Template(T)]
\* on an empty registry fails, [Template(T), Data(T)] succeeds.
C1_TemplateGating ==
    /\ \A id \in TemplateIds : store[id] # None <=> id \in known
    /\ (DecodeDone /\ res.err = "MissingTemplate") => res.arg \notin known
    /\ (phase = "records" /\ dset.kind = "Data" /\ dset.recs # << >>) =>
            dset.set_id \in known
    /\ (DecodeDone /\ din.wf) =>
            LET e == Expect(din.msg.sets, din.shapes, 1, st0)
            IN  /\ e = <<"ok">> => res.err = "none" /\ res.out = din.msg
                /\ e[1] = "MissingTemplate" =>
                        res.err = "MissingTemplate" /\ res.arg = e[2]
    /\ (DecodeDone /\ st0 = EmptyStore /\ din.name = "DT") =>
            res.err = "MissingTemplate" /\ res.arg = IdA
    /\ (DecodeDone /\ st0 = EmptyStore /\ din.name = "TD") =>
            /\ res.err = "none"
            /\ res.out.sets[2].records.data = <<RecA1, RecA2>>

C1_Witness ==
    /\ DecodeDone /\ din.name = "D" /\ res.err = "none"
    /\ st0[IdA] = ShapeA
    /\ res.out.sets[1].records.data = <<RecA1>>

\* C5: a decode that needs more bytes than its scope has left fails: a
\* Message read that succeeds has consumed its whole input as complete
\* Sets, and every Set read has consumed exactly its declared content.
C5_NoSilentTruncation ==
    /\ (DecodeDone /\ res.err = "none") => dpos = Len(din.bytes)
    /\ (phase = "records" => dpos <= dset.end)

-----------------------------------------------------------------------------
(* Properties of encoding                                                  *)

RECURSIVE SumOver(_, _)
SumOver(Op(_), seq) ==
    IF seq = << >> THEN 0 ELSE Op(Head(seq)) + SumOver(Op, Tail(seq))

FieldSpecifierSize(fs) == IF fs.enterprise_number = None THEN 4 ELSE 8
TemplateRecordSize(r) == 4 + SumOver(FieldSpecifierSize, r.field_specifiers)
OptionsTemplateRecordSize(r) == 6 + SumOver(FieldSpecifierSize, r.field_specifiers)

\* the number of content bytes of a Set, counted from its records
ContentSize(st, records) ==
    CASE records.kind = "Template" -> SumOver(TemplateRecordSize, records.recs)
      [] records.kind = "OptionsTemplate" ->
            SumOver(OptionsTemplateRecordSize, records.recs)
      [] records.kind = "Data" ->
            LET fields == st[records.set_id][2].fields
                ValueSize(rec, f) ==
                    Len(WriteValue(rec.values[f.name], f.field_length).bytes)
                RecordSize(rec) ==
                    LET FieldSize(f) == ValueSize(rec, f)
                    IN  SumOver(FieldSize, fields)
            IN  SumOver(RecordSize, records.data)

\* from offset pos on, buf holds the Sets i.. of sets, each with its id and
\* with a length field equal to its header, content and padding, up to the
\* end of buf
RECURSIVE SetSpansMatch(_, _, _, _, _, _)
SetSpansMatch(st, buf, pos, sets, i, alignment) ==
    IF i > Len(sets) THEN pos = Len(buf)
    ELSE LET c == ContentSize(st, sets[i].records)
             pad == (alignment - ((pos + SetHeaderLen + c) % alignment)) % alignment
             span == SetHeaderLen + c + pad
         IN  /\ pos + SetHeaderLen <= Len(buf)
             /\ U16Of(Slice(buf, pos, 2)) = RecordsSetId(sets[i].records)
             /\ U16Of(Slice(buf, pos + 2, 2)) = span
             /\ SetSpansMatch(st, buf, pos + span, sets, i + 1, alignment)

EncodeOk == res.op = "encode" /\ res.err = "none"

SetLengthsBackpatched ==
    EncodeOk =>
        /\ SetSpansMatch(store, res.out.buf, res.in.start + MessageHeaderLen,
                         res.in.msg.sets, 1, res.in.alignment)
        /\ res.out.pos = Len(res.out.buf)

MessageLengthBackpatched ==
    EncodeOk =>
        U16Of(Slice(res.out.buf, res.in.start + 2, 2))
            = Len(res.out.buf) - res.in.start

\* C2: after a successful Message encode, from any starting cursor and for
\* any alignment, the Message length field is the number of bytes written
\* for the Message, each Set length field is the number of bytes of its
\* Set, and the cursor is at the end of what was written.
C2_LengthBackpatch == MessageLengthBackpatched /\ SetLengthsBackpatched

HasReservedId(msg) ==
    \E i \in 1..Len(msg.sets) :
        LET r == msg.sets[i].records
        IN  IF r.kind = "Data" THEN r.set_id <= ReservedMax
            ELSE \E j \in 1..Len(r.recs) : r.recs[j].template_id <= ReservedMax

\* C6: a Set with a reserved set id and a Template or Options Template
\* record with a reserved template id is rejected by every decode and every
\* encode that processes it, and no decode installs a template under a
\* reserved id.
C6_ReservedIdRejection ==
    /\ (res.op = "encode" /\ HasReservedId(res.in.msg)) => res.err # "none"
    /\ (DecodeDone /\ din.name \in {"ReservedSet", "ReservedTemplate",
                                    "ThenReservedTemplate"}) => res.err # "none"
    /\ DecodeDone => \A id \in TemplateIds :
                        id <= ReservedMax => store[id] = st0[id]

RecordDone == res.op = "record"
RecFields == store[res.in.set_id][2].fields
RecValues == res.in.rec.values
AbsentFields == {i \in 1..Len(RecFields) : RecFields[i].name \notin DOMAIN RecValues}
Serialized(i) == WriteValue(RecValues[RecFields[i].name], RecFields[i].field_length)
FailingFields ==
    {i \in 1..Len(RecFields) : i \notin AbsentFields /\ ~Serialized(i).ok}
FirstOf(S) == CHOOSE i \in S : \A j \in S : i <= j

RECURSIVE SerializedFrom(_)
SerializedFrom(i) ==
    IF i > Len(RecFields) THEN << >>
    ELSE Serialized(i).bytes \o SerializedFrom(i + 1)

\* C4 as stated: Data Record encode fails with MissingTemplate(T) without a
\* template, otherwise with MissingData(key) for the first template field
\* whose key the record lacks, otherwise it writes every field's value in
\* template order under the field's declared length.
C4_AsStated ==
    RecordDone =>
        IF store[res.in.set_id] = None
        THEN res.err = "MissingTemplate" /\ res.arg = res.in.set_id
        ELSE IF AbsentFields # {}
        THEN /\ res.err = "MissingData"
             /\ res.arg = RecFields[FirstOf(AbsentFields)].name
        ELSE res.err = "none" /\ res.out.buf = SerializedFrom(1)

\* C4 (amended): Data Record encode fails with MissingTemplate(T) without a
\* template; otherwise it takes the fields in template order and stops at
\* the first field whose key the record lacks, with MissingData(key), or
\* whose value fails to serialize, with that value's error; when there is
\* no such field it writes every field's value in template order under the
\* field's declared length.
C4_EncodeOrder ==
    RecordDone =>
        IF store[res.in.set_id] = None
        THEN res.err = "MissingTemplate" /\ res.arg = res.in.set_id
        ELSE LET bad == AbsentFields \cup FailingFields
             IN  IF bad = {}
                 THEN res.err = "none" /\ res.out.buf = SerializedFrom(1)
                 ELSE IF FirstOf(bad) \in AbsentFields
                 THEN /\ res.err = "MissingData"
                      /\ res.arg = RecFields[FirstOf(bad)].name
                 ELSE res.err = Serialized(FirstOf(bad)).err

C4_Witness ==
    /\ RecordDone /\ res.in.rec = RecNoOctets
    /\ store[res.in.set_id] = ShapeA
    /\ res.err = "MissingData" /\ res.arg = K_octets

-----------------------------------------------------------------------------
(* The shared registry: TemplateStorage for Arc<RwLock<HashMap<..>>>       *)
(* (template_store.rs).  Threads call get_template and insert_template on  *)
(* one map.  An entry is held and copied cell by cell (its kind, then its  *)
(* fields), so that a copy taken while the entry is being replaced would   *)
(* show as a mixture of two templates.                                      *)

NumThreads == 3
Threads == 1..NumThreads

LockIds == {IdA}
LockTemplates == {Expand("Template", FieldsA), Expand("OptionsTemplate", FieldsB)}

Cells(template) == <<template.kind>> \o template.fields
Assemble(cells) == Template(cells[1], Tail(cells))
CellAt(cells, k) == IF k <= Len(cells) THEN cells[k] ELSE "vacant"

NoCall == [op |-> "none"]
NoRet == <<"unset">>

InitLock ==
    /\ lock = [readers |-> {}, writer |-> 0]
    /\ slot = [id \in LockIds |-> << >>]
    /\ pc = [t \in Threads |-> "idle"]
    /\ call = [t \in Threads |-> NoCall]
    /\ local = [t \in Threads |-> << >>]
    /\ ret = [t \in Threads |-> NoRet]
    /\ installed = [id \in LockIds |-> None]
    /\ ValueIdle
    /\ CodecIdle

\* RwLock::read succeeds while no thread holds the lock exclusively
CanRead == lock.writer = 0

\* RwLock::write that is granted while readers still hold the lock
CanWriteIgnoringReaders == lock.writer = 0

\* RwLock::write succeeds while no thread holds the lock at all
CanWrite == lock.writer = 0 /\ lock.readers = {}

\* a thread enters get_template(template_id)
CallGet(t, id) ==
    /\ pc[t] = "idle"
    /\ pc' = [pc EXCEPT ![t] = "wait"]
    /\ call' = [call EXCEPT ![t] = [op |-> "get", id |-> id]]
    /\ ret' = [ret EXCEPT ![t] = NoRet]
    /\ UNCHANGED <<lock, slot, local, installed>>
    /\ UNCHANGED <<valueVars, codecVars>>

\* a thread enters insert_template(template_id, template)
CallInsert(t, id, template) ==
    /\ pc[t] = "idle"
    /\ pc' = [pc EXCEPT ![t] = "wait"]
    /\ call' = [call EXCEPT ![t] =
                    [op |-> "insert", id |-> id, template |-> template]]
    /\ ret' = [ret EXCEPT ![t] = NoRet]
    /\ UNCHANGED <<lock, slot, local, installed>>
    /\ UNCHANGED <<valueVars, codecVars>>

\* get_template: self.read().unwrap()
ReadLock(t) ==
    /\ pc[t] = "wait" /\ call[t].op = "get"
    /\ CanRead
    /\ lock' = [lock EXCEPT !.readers = @ \cup {t}]
    /\ pc' = [pc EXCEPT ![t] = "read"]
    /\ local' = [local EXCEPT ![t] = << >>]
    /\ UNCHANGED <<slot, call, ret, installed>>
    /\ UNCHANGED <<valueVars, codecVars>>

\* get_template: .get(&template_id).cloned(), one cell of the entry a step
GetClone(t) ==
    /\ pc[t] = "read"
    /\ LET cells == slot[call[t].id]
           k == Len(local[t]) + 1
       IN  IF k = 1 /\ cells = << >>
           THEN /\ pc' = [pc EXCEPT ![t] = "rdone"]
                /\ UNCHANGED local
           ELSE /\ local' = [local EXCEPT ![t] = Append(@, CellAt(cells, k))]
                /\ pc' = [pc EXCEPT ![t] =
                              IF k >= Len(cells) THEN "rdone" ELSE "read"]
    /\ UNCHANGED <<lock, slot, call, ret, installed>>
    /\ UNCHANGED <<valueVars, codecVars>>

\* get_template returns: the read guard is dropped at the end of the statement
ReadUnlock(t) ==
    /\ pc[t] = "rdone"
    /\ lock' = [lock EXCEPT !.readers = @ \ {t}]
    /\ ret' = [ret EXCEPT ![t] =
                   IF local[t] = << >> THEN None ELSE Some(Assemble(local[t]))]
    /\ pc' = [pc EXCEPT ![t] = "idle"]
    /\ call' = [call EXCEPT ![t] = NoCall]
    /\ local' = [local EXCEPT ![t] = << >>]
    /\ UNCHANGED <<slot, installed>>
    /\ UNCHANGED <<valueVars, codecVars>>

\* insert_template: self.write().unwrap()
WriteLock(t) ==
    /\ pc[t] = "wait" /\ call[t].op = "insert"
    /\ CanWrite
    /\ lock' = [lock EXCEPT !.writer = t]
    /\ pc' = [pc EXCEPT ![t] = "write"]
    /\ local' = [local EXCEPT ![t] = << >>]
    /\ installed' = [installed EXCEPT ![call[t].id] = Some(call[t].template)]
    /\ UNCHANGED <<slot, call, ret>>
    /\ UNCHANGED <<valueVars, codecVars>>

\* insert_template: .insert(template_id, template), one cell of the entry a step
InsertCell(t) ==
    /\ pc[t] = "write"
    /\ LET new == Cells(call[t].template)
           old == slot[call[t].id]
           k == Len(local[t]) + 1
       IN  /\ slot' = [slot EXCEPT ![call[t].id] =
                           SubSeq(new, 1, k) \o SubSeq(old, k + 1, Len(old))]
           /\ local' = [local EXCEPT ![t] = Append(@, new[k])]
           /\ pc' = [pc EXCEPT ![t] = IF k = Len(new) THEN "wdone" ELSE "write"]
    /\ UNCHANGED <<lock, call, ret, installed>>
    /\ UNCHANGED <<valueVars, codecVars>>

\* insert_template returns: the write guard is dropped at the end of the statement
WriteUnlock(t) ==
    /\ pc[t] = "wdone"
    /\ lock' = [lock EXCEPT !.writer = 0]
    /\ pc' = [pc EXCEPT ![t] = "idle"]
    /\ call' = [call EXCEPT ![t] = NoCall]
    /\ local' = [local EXCEPT ![t] = << >>]
    /\ UNCHANGED <<slot, ret, installed>>
    /\ UNCHANGED <<valueVars, codecVars>>

NextLock ==
    \/ \E t \in Threads, id \in LockIds : CallGet(t, id)
    \/ \E t \in Threads, id \in LockIds, template \in LockTemplates :
            CallInsert(t, id, template)
    \/ \E t \in Threads : ReadLock(t)
    \/ \E t \in Threads : GetClone(t)
    \/ \E t \in Threads : ReadUnlock(t)
    \/ \E t \in Threads : WriteLock(t)
    \/ \E t \in Threads : InsertCell(t)
    \/ \E t \in Threads : WriteUnlock(t)

SpecLock == InitLock /\ [][NextLock]_vars

InGet(t) == pc[t] \in {"read", "rdone"}
InInsert(t) == pc[t] \in {"write", "wdone"}

InsertExcludesAll ==
    \A t \in Threads, u \in Threads :
        (t # u /\ InInsert(t)) => (~InGet(u) /\ ~InInsert(u))

ReturnsWholeTemplate ==
    \A t \in Threads :
        ret[t] \in {NoRet, None} \cup {Some(x) : x \in LockTemplates}

GetReturnsInstalled ==
    \A t \in Threads :
        (pc[t] = "rdone" /\ pc'[t] = "idle") => ret'[t] = installed[call[t].id]

\* C8: with the read/write-locked registry, in every interleaving, a thread
\* inside insert_template shares the map with no thread inside get_template
\* or insert_template, and every get_template returns the whole template of
\* the last insert that took the lock before it (or nothing when there was
\* none), never a mixture of two templates.
C8_LockExclusion ==
    /\ [](InsertExcludesAll /\ ReturnsWholeTemplate)
    /\ [][GetReturnsInstalled]_vars

\* two get_template calls hold the map together, each with a whole copy of
\* the installed template, while an insert_template waits for the lock
C8_Witness ==
    \E t \in Threads, u \in Threads, w \in Threads :
        /\ t # u
        /\ pc[t] = "rdone" /\ pc[u] = "rdone"
        /\ installed[IdA] # None
        /\ local[t] = Cells(installed[IdA][2]) /\ local[u] = local[t]
        /\ pc[w] = "wait" /\ call[w].op = "insert"
        /\ call[w].template # installed[IdA][2]

-----------------------------------------------------------------------------
(* A decoder on the shared registry: one thread reads a Data Set, every    *)
(* DataRecord::read_options of the Set calling get_template on the         *)
(* Arc<RwLock<..>> registry, while the other threads, decoders of Template *)
(* Sets, call insert_template for the same id.                             *)

Decoder == 1
Inserters == Threads \ {Decoder}

SharedTemplates == {Expand("Template", FieldsA), Expand("Template", FieldsC)}
SharedInput == Malformed("DataA12", RawDataA12)

InitShared ==
    /\ lock = [readers |-> {}, writer |-> 0]
    /\ slot = [id \in LockIds |-> Cells(Expand("Template", FieldsA))]
    /\ installed = [id \in LockIds |-> Some(Expand("Template", FieldsA))]
    /\ pc = [t \in Threads |-> "idle"]
    /\ call = [t \in Threads |-> NoCall]
    /\ local = [t \in Threads |-> << >>]
    /\ ret = [t \in Threads |-> NoRet]
    /\ store = EmptyStore
    /\ hist = << >>
    /\ known = {}
    /\ phase = "idle"
    /\ din = NoInput
    /\ dpos = 0
    /\ dset = NoSet
    /\ dsets = << >>
    /\ st0 = EmptyStore
    /\ res = NoRes
    /\ ValueIdle

\* Set::read up to its records: set_id and length
SharedSetBegin ==
    /\ phase = "idle" /\ res.op = "none"
    /\ pc[Decoder] = "idle"
    /\ LET h == ReadSetHeader(SharedInput.bytes, 0)
       IN  /\ din' = SharedInput
           /\ dset' = [kind |-> h.kind, set_id |-> h.set_id,
                       begin |-> h.pos,
                            end |-> h.pos + h.limit, recs |-> << >>]
           /\ dpos' = h.pos
    /\ hist' = << >>
    /\ phase' = "records"
    /\ UNCHANGED <<store, known, dsets, st0, res>>
    /\ UNCHANGED <<valueVars, lockVars>>

\* DataRecord::read_options enters templates.get_template(set_id)
SharedRecordLookup ==
    /\ phase = "records"
    /\ dpos < dset.end
    /\ pc[Decoder] = "idle"
    /\ pc' = [pc EXCEPT ![Decoder] = "wait"]
    /\ call' = [call EXCEPT ![Decoder] = [op |-> "get", id |-> dset.set_id]]
    /\ ret' = [ret EXCEPT ![Decoder] = NoRet]
    /\ phase' = "lookup"
    /\ UNCHANGED <<lock, slot, local, installed>>
    /\ UNCHANGED <<store, hist, known, din, dpos, dset, dsets, st0, res>>
    /\ UNCHANGED valueVars

\* DataRecord::read_options after get_template returned: the fields of the
\* template it was given are read in order
SharedRecordRead ==
    /\ phase = "lookup"
    /\ pc[Decoder] = "idle" /\ ret[Decoder] # NoRet
    /\ LET t == ret[Decoder]
           r == IF t = None
                THEN [err |-> "MissingTemplate", value |-> dset.set_id, pos |-> dpos]
                ELSE ReadFields(t[2].fields, 1, Limited(din.bytes, dset.end),
                                dpos, NoValues)
       IN  /\ hist' = Append(hist, t)
           /\ IF r.err # "none"
              THEN /\ res' = Res("decode", r.err, 0, 0, 0)
                   /\ phase' = "idle"
                   /\ UNCHANGED <<dset, dpos>>
              ELSE /\ dset' = [dset EXCEPT !.recs = Append(@, r.value)]
                   /\ dpos' = r.pos
                   /\ phase' = "records"
                   /\ UNCHANGED res
    /\ UNCHANGED <<store, known, din, dsets, st0>>
    /\ UNCHANGED <<valueVars, lockVars>>

\* until_limit ends: the budget of the Set is used up
SharedSetEnd ==
    /\ phase = "records"
    /\ dpos >= dset.end
    /\ res' = Res("decode", "none", 0, DataRecords(dset.set_id, dset.recs), 0)
    /\ phase' = "idle"
    /\ UNCHANGED <<store, hist, known, din, dpos, dset, dsets, st0>>
    /\ UNCHANGED <<valueVars, lockVars>>

NextShared ==
    \/ SharedSetBegin
    \/ SharedRecordLookup
    \/ SharedRecordRead
    \/ SharedSetEnd
    \/ \E t \in Inserters, id \in LockIds, template \in SharedTemplates :
            CallInsert(t, id, template)
    \/ \E t \in Threads : ReadLock(t)
    \/ \E t \in Threads : GetClone(t)
    \/ \E t \in Threads : ReadUnlock(t)
    \/ \E t \in Threads : WriteLock(t)
    \/ \E t \in Threads : InsertCell(t)
    \/ \E t \in Threads : WriteUnlock(t)

SpecShared == InitShared /\ [][NextShared]_vars

\* C11: all the Data Records read from one Data Set are read against the
\* same template, in every interleaving with insert_template calls of other
\* threads for the Set's id.
C11_OneTemplatePerSet ==
    \A i \in 1..Len(hist), j \in 1..Len(hist) : hist[i] = hist[j]

-----------------------------------------------------------------------------
(* Termination of a Set read                                               *)

\* a record read that leaves the Set read running has moved the reader on:
\* the budget left, dset.end - dpos, is the variant of the until_limit loop
RecordConsumesInput ==
    (phase = "records" /\ phase' = "records") => dpos' > dpos

\* C12: the read of a Data Set ends, for every template the registry can
\* hold: each Data Record read uses up at least one byte of what is left of
\* the Set's declared length or fails, so the loop over the records stops.
C12_DecodeTerminates == [][RecordConsumesInput]_vars

-----------------------------------------------------------------------------
(* Installation of templates by a decode                                   *)

\* the Template and Options Template records of the Sets, in the order read
RECURSIVE RecordsOfSets(_)
RecordsOfSets(sets) ==
    IF sets = << >> THEN << >>
    ELSE LET r == Head(sets).records
         IN  (IF r.kind = "Data" THEN << >>
              ELSE [i \in 1..Len(r.recs) |-> <<r.kind, r.recs[i]>>])
             \o RecordsOfSets(Tail(sets))

\* the registry that results from st when exactly the records of the Sets
\* are installed, in order: each id holds its last record, or what st held
InstalledFrom(st, sets) ==
    LET recs == RecordsOfSets(sets)
        At(id) == {i \in 1..Len(recs) : recs[i][2].template_id = id}
        Last(id) == CHOOSE i \in At(id) : \A j \in At(id) : j <= i
    IN  [id \in TemplateIds |->
            IF At(id) = {} THEN st[id]
            ELSE Some(Expand(recs[Last(id)][1],
                             recs[Last(id)][2].field_specifiers))]

SetInstallsWhole ==
    phase \in {"sets", "records"} \/ DecodeDone
        => store = InstalledFrom(st0, dsets)

SetReadKeepsRegistry ==
    (phase = "records" /\ phase' # "sets") => store' = store

\* C13: a Template or Options Template Set installs all its records, in
\* record order, when its whole record sequence has been read, and nothing
\* otherwise: while a Set is read and when its read fails the registry is
\* what it was before the Set, so after any decode the registry holds the
\* records of exactly the Sets that were read whole.
C13_AllOrNothing == [](SetInstallsWhole) /\ [][SetReadKeepsRegistry]_vars

\* a Set whose first record is well-formed and whose second has a reserved
\* id was read on a registry without the first record's id: nothing changed
C13_Witness ==
    /\ DecodeDone /\ din.name = "ThenReservedTemplate"
    /\ res.err # "none"
    /\ st0[IdA] = None /\ store = st0

-----------------------------------------------------------------------------
(* The value map of a decoded Data Record                                  *)

\* every record of a Data Set has been read, the Set is about to be closed
DataSetRead == phase = "records" /\ dset.kind = "Data" /\ dpos >= dset.end

\* C14: each Data Record read against a template holds one map entry per
\* field specifier of the template, for every template the registry can
\* hold, and writing the records read from a Data Set against the same
\* template gives back the bytes they were read from.
C14_OneValuePerField ==
    DataSetRead =>
        LET fields == store[dset.set_id][2].fields
            again == WriteDataRecords(store, dset.set_id, dset.recs,
                                      [buf |-> << >>, pos |-> 0])
        IN  /\ \A i \in 1..Len(dset.recs) :
                    Cardinality(DOMAIN dset.recs[i].values) = Len(fields)
            /\ again.err = "none"
            /\ again.sink.buf = Slice(din.bytes, dset.begin, dpos - dset.begin)

====
